---- MODULE Spec2Model ----
(***************************************************************************)
(* Siraj: a voice assistant that extracts a restaurant name from a         *)
(* transcribed Arabic utterance, fuzzy-matches it against the Display_Name *)
(* column of a CSV catalog and speaks the Path of the match.               *)
(*                                                                         *)
(* Text is modelled as a sequence of characters.  Each character is a      *)
(* one-letter string standing for a code point:                            *)
(*   " " U+0020   "a" U+0061   "n" U+006E   "x" U+0078   (not Arabic)      *)
(*   "I" U+0625 (alef with hamza below)   "A" U+0627 (alef)                *)
(*   "J" U+062C (jeem)   "R" U+0631 (reh)   "S" U+0633 (seen)              *)
(*   "_" U+0640 (tatweel) "L" U+0644 (lam)  "M" U+0645 (meem)              *)
(*   "Y" U+0649 (alef maksura)                                             *)
(*   "K" U+062E (khah)   "D" U+062F (dal)   "Z" U+0630 (thal)              *)
(*   "T" U+0637 (tah)    "E" U+0639 (ain)   "N" U+0646 (noon)              *)
(*   "W" U+0648 (waw)    "V" U+064A (yeh)                                  *)
(* so that "ILY" is the preposition ila, "L_" is lam with tatweel,         *)
(* "SRAJ" is the wake word and "MTEM ALDVWAN" is the restaurant al-Diwan.  *)
(***************************************************************************)
EXTENDS Integers, Sequences, FiniteSets, TLC

VARIABLES
    df,        \* the catalog: a sequence of rows [Display_Name, Path]
    prog,      \* which program runs: "assistant", "pipeline", or a direct call
    pc,        \* position of the program
    text,      \* main(): transcript of the wake-word recording
    question,  \* main(): transcript of the question recording
    dest_raw,  \* main(): extract_destination(question)
    best,      \* main(): name returned by find_best_match
    score,     \* main(): score returned by find_best_match
    path,      \* main(): get_path(best)
    said,      \* texts handed to the synthesizer since the last wake listen
    lookups,   \* calls of get_path since the last wake listen
    restaurant,\* get_route_handler: args["restaurant"] / argument of a direct call
    out,       \* get_route_handler: FlowResult output / result of a direct call
    exc        \* the uncaught exception that ended the program, or "none"

vars == <<df, prog, pc, text, question, dest_raw, best, score, path, said,
          lookups, restaurant, out, exc>>

-----------------------------------------------------------------------------
(* Bounds of the model *)

MaxUtt == 4     \* longest utterance given to extract_destination on its own
MaxQ == 2       \* longest question transcript in main() and handler argument
MaxCat == 2     \* most rows in the catalog

-----------------------------------------------------------------------------
(* Values *)

NaN == <<"NaN">>        \* pandas' missing value (float nan)
None == <<"None">>      \* Python's None
Unset == <<"unset">>    \* a local that holds no value yet
NoScore == 0 - 1        \* score before find_best_match has returned

Ord(c) ==
    CASE c = " " -> 32   [] c = "a" -> 97   [] c = "n" -> 110  [] c = "x" -> 120
      [] c = "I" -> 1573 [] c = "A" -> 1575 [] c = "J" -> 1580 [] c = "R" -> 1585
      [] c = "S" -> 1587 [] c = "_" -> 1600 [] c = "L" -> 1604 [] c = "M" -> 1605
      [] c = "Y" -> 1609 [] c = "K" -> 1582 [] c = "D" -> 1583 [] c = "Z" -> 1584
      [] c = "T" -> 1591 [] c = "E" -> 1593 [] c = "N" -> 1606 [] c = "W" -> 1608
      [] c = "V" -> 1610

IsSpace(c) == c = " "
IsArabic(c) == Ord(c) >= 1536 /\ Ord(c) <= 1791    \* [\u0600-\u06FF]

Min(S) == CHOOSE x \in S : \A y \in S : x <= y
Max(S) == CHOOSE x \in S : \A y \in S : x >= y

\* s[i:j] of Python, 0-based and clipped
Slice(s, i, j) ==
    LET lo == IF i < 0 THEN 0 ELSE i
        hi == IF j > Len(s) THEN Len(s) ELSE j
    IN  IF hi <= lo THEN <<>> ELSE SubSeq(s, lo + 1, hi)

\* str.strip()
Strip(s) ==
    LET keep == {i \in 1..Len(s) : ~IsSpace(s[i])}
    IN  IF keep = {} THEN <<>> ELSE SubSeq(s, Min(keep), Max(keep))

\* all texts of at most n characters over the alphabet cs
RECURSIVE TextsOfLen(_, _)
TextsOfLen(cs, n) ==
    IF n = 0 THEN {<<>>}
    ELSE {Append(t, c) : t \in TextsOfLen(cs, n - 1), c \in cs}
Texts(cs, n) == UNION {TextsOfLen(cs, k) : k \in 0..n}

-----------------------------------------------------------------------------
(* extract_destination: re.search(r"(?:ILY|L_|L)\s*([\u0600-\u06FF\s]+)")  *)

Markers == << <<"I", "L", "Y">>, <<"L", "_">>, <<"L">> >>   \* in the order of the alternation

InClass(c) == IsArabic(c) \/ IsSpace(c)

\* length of the longest run from 0-based position p whose characters satisfy the class
SpaceRun(t, p) ==
    Min({k \in 0..(Len(t) - p) : k = Len(t) - p \/ ~IsSpace(t[p + k + 1])})
ClassRun(t, p) ==
    Min({k \in 0..(Len(t) - p) : k = Len(t) - p \/ ~InClass(t[p + k + 1])})

\* The match of "\s*([class]+)" at position p: \s* is greedy and gives back one
\* character when the group could not otherwise start.  Result: the 0-based start
\* of group 1, or -1 when there is no match.
GroupStart(t, p) ==
    LET sp == SpaceRun(t, p)
    IN  IF p + sp < Len(t) /\ InClass(t[p + sp + 1]) THEN p + sp
        ELSE IF sp >= 1 THEN p + sp - 1
        ELSE -1

\* The alternatives are tried in order at position i; the first whose remainder
\* matches wins.  Result: the index in Markers, or 0.
AltAt(t, i) ==
    LET ok == {m \in 1..Len(Markers) :
                  /\ Slice(t, i, i + Len(Markers[m])) = Markers[m]
                  /\ GroupStart(t, i + Len(Markers[m])) >= 0}
    IN  IF ok = {} THEN 0 ELSE Min(ok)

\* extract_destination with the pattern r"(?:ILY|L)\s*(...)", the alternative "L_"
\* left out
extract_destination_NoTatweel(t) ==
    LET hits == {i \in 0..(Len(t) - 1) :
                   \/ (Slice(t, i, i + 3) = Markers[1] /\ GroupStart(t, i + 3) >= 0)
                   \/ (Slice(t, i, i + 1) = Markers[3] /\ GroupStart(t, i + 1) >= 0)}
    IN  IF hits = {} THEN Strip(t)
        ELSE LET i == Min(hits)
                 n == IF Slice(t, i, i + 3) = Markers[1] /\ GroupStart(t, i + 3) >= 0
                      THEN 3 ELSE 1
                 g == GroupStart(t, i + n)
             IN  Strip(Slice(t, g, g + ClassRun(t, g)))

extract_destination(t) ==
    LET hits == {i \in 0..(Len(t) - 1) : AltAt(t, i) > 0}
    IN  IF hits = {} THEN Strip(t)
        ELSE LET i == Min(hits)                       \* search: leftmost match
                 g == GroupStart(t, i + Len(Markers[AltAt(t, i)]))
             IN  Strip(Slice(t, g, g + ClassRun(t, g)))

-----------------------------------------------------------------------------
(* fuzzywuzzy, as process.extractOne(query, names) uses it: the default    *)
(* processor utils.full_process and the default scorer fuzz.WRatio, over   *)
(* difflib.SequenceMatcher (the matcher fuzzywuzzy uses when the optional  *)
(* python-Levenshtein is not installed).                                   *)

\* utils.full_process(s, force_ascii): str(s) for a non-string, characters
\* U+0080..U+00FF dropped, every non-alphanumeric replaced by a space, lower(),
\* strip().  Every character of the model's alphabet but the space is
\* alphanumeric and has no upper case, and none lies in U+0080..U+00FF.
full_process(s) ==
    IF s = None THEN <<>>
    ELSE LET str == IF s = NaN THEN <<"n", "a", "n">> ELSE s
             kept == SelectSeq(str, LAMBDA c : Ord(c) < 128 \/ Ord(c) > 255)
         IN  Strip(kept)

\* utils.intr: int(round(p/q)), Python 3 rounding half to even
intr(p, q) ==
    LET d == p \div q
        r == p % q
    IN  IF 2 * r > q THEN d + 1
        ELSE IF 2 * r < q THEN d
        ELSE IF d % 2 = 0 THEN d ELSE d + 1

\* The element of a one-element set.  The({e(x) : x \in {v}}) evaluates v once
\* and names its value x, where LET x == v would evaluate v at every use of x.
The(S) == CHOOSE x \in S : TRUE

\* length of the common run of a from i and of b from j (0-based)
RunLen(a, b, i, j) ==
    Max({k \in 0..Min({Len(a) - i, Len(b) - j}) : Slice(a, i, i + k) = Slice(b, j, j + k)})

\* SequenceMatcher.find_longest_match: the longest common block, of those the one
\* that starts earliest in a, of those the one that starts earliest in b;
\* (0, 0, 0) when nothing matches
find_longest_match(a, b) ==
    The({ CHOOSE m \in R : \A n \in R :
              \/ m[3] > n[3]
              \/ m[3] = n[3] /\ m[1] < n[1]
              \/ m[3] = n[3] /\ m[1] = n[1] /\ m[2] <= n[2]
          : R \in { {<<0, 0, 0>>} \cup
                    {<<p[1], p[2], RunLen(x, y, p[1], p[2])>> :
                        p \in (0..(Len(x) - 1)) \X (0..(Len(y) - 1))}
                    : x \in {a}, y \in {b} } })

\* SequenceMatcher.get_matching_blocks, without the closing dummy block: the
\* longest block, then the blocks to its left and to its right.  oa and ob are
\* the offsets of a and b in the strings compared.
RECURSIVE Blocks(_, _, _, _)
Blocks(a, b, oa, ob) ==
    UNION { IF m[3] = 0 THEN {}
            ELSE {<<oa + m[1], ob + m[2], m[3]>>}
                 \cup Blocks(Slice(a, 0, m[1]), Slice(b, 0, m[2]), oa, ob)
                 \cup Blocks(Slice(a, m[1] + m[3], Len(a)), Slice(b, m[2] + m[3], Len(b)),
                             oa + m[1] + m[3], ob + m[2] + m[3])
            : m \in {find_longest_match(a, b)} }

get_matching_blocks(a, b) == Blocks(a, b, 0, 0) \cup {<<Len(a), Len(b), 0>>}

\* the number of matched characters, M of SequenceMatcher.ratio() = 2M/T: the
\* blocks are disjoint, so it is the number of positions of a they cover
Matches(a, b) ==
    Cardinality(UNION {blk[1]..(blk[1] + blk[3] - 1) : blk \in Blocks(a, b, 0, 0)})

\* fuzz.ratio, with its decorators check_for_equivalence and check_empty_string
ratio(s1, s2) ==
    The({ IF x = y THEN 100
          ELSE IF Len(x) = 0 \/ Len(y) = 0 THEN 0
          ELSE intr(200 * Matches(x, y), Len(x) + Len(y))
          : x \in {s1}, y \in {s2} })

\* fuzz.partial_ratio: the shorter string against the window of the longer one
\* that each matching block lines it up with; the best window counts
partial_ratio(s1, s2) ==
    The({ IF x = y THEN 100
          ELSE IF Len(x) = 0 \/ Len(y) = 0 THEN 0
          ELSE The({ Max({ The({ intr(200 * Matches(shorter, window),
                                      Len(shorter) + Len(window))
                                 : window \in {Slice(longer,
                                                     IF blk[2] - blk[1] > 0
                                                     THEN blk[2] - blk[1] ELSE 0,
                                                     (IF blk[2] - blk[1] > 0
                                                      THEN blk[2] - blk[1] ELSE 0)
                                                     + Len(shorter))} })
                           : blk \in get_matching_blocks(shorter, longer) })
                     : shorter \in {IF Len(x) <= Len(y) THEN x ELSE y},
                       longer  \in {IF Len(x) <= Len(y) THEN y ELSE x} })
          : x \in {s1}, y \in {s2} })

\* str.split(): the maximal runs of non-space characters, in order
split(s) ==
    The({ The({ [r \in 1..Cardinality(starts) |->
                    The({ SubSeq(x, i, Min({j \in i..Len(x) :
                                               j = Len(x) \/ IsSpace(x[j + 1])}))
                          : i \in {k \in starts :
                                      Cardinality({j \in starts : j < k}) = r - 1} })]
                : starts \in { {i \in 1..Len(x) :
                                  ~IsSpace(x[i]) /\ (i = 1 \/ IsSpace(x[i - 1]))} } })
          : x \in {s} })

\* a < b for Python strings: by code point, a proper prefix first
LexLess(a, b) ==
    \E k \in 0..Min({Len(a), Len(b)}) :
        /\ SubSeq(a, 1, k) = SubSeq(b, 1, k)
        /\ k < Len(b)
        /\ (k = Len(a) \/ Ord(a[k + 1]) < Ord(b[k + 1]))

\* sorted(ts) of a list of tokens: the token at position k comes after the
\* smaller tokens and after the equal tokens before it
sorted(ts) ==
    The({ [r \in 1..Len(x) |->
              x[CHOOSE k \in 1..Len(x) :
                    Cardinality({l \in 1..Len(x) :
                                    LexLess(x[l], x[k]) \/ (x[l] = x[k] /\ l < k)}) = r - 1]]
          : x \in {ts} })

\* sorted(S) of a set of tokens
sortedSet(S) ==
    The({ [r \in 1..Cardinality(X) |->
              CHOOSE t \in X : Cardinality({z \in X : LexLess(z, t)}) = r - 1]
          : X \in {S} })

\* " ".join(ts)
RECURSIVE JoinFrom(_, _)
JoinFrom(ts, k) ==
    IF k > Len(ts) THEN <<>>
    ELSE IF k = Len(ts) THEN ts[k]
    ELSE ts[k] \o <<" ">> \o JoinFrom(ts, k + 1)
join(ts) == The({ JoinFrom(x, 1) : x \in {ts} })

\* fuzz._process_and_sort with full_process=False
process_and_sort(s) == Strip(join(sorted(split(s))))

\* fuzz._token_sort with full_process=False
token_sort(s1, s2, partial) ==
    IF partial THEN partial_ratio(process_and_sort(s1), process_and_sort(s2))
    ELSE ratio(process_and_sort(s1), process_and_sort(s2))

\* fuzz._token_set with full_process=False
token_set(s1, s2, partial) ==
    IF s1 = s2 THEN 100
    ELSE IF Len(s1) = 0 \/ Len(s2) = 0 THEN 0
    ELSE The({ The({ The({ Max({ IF partial THEN partial_ratio(p[1], p[2])
                                            ELSE ratio(p[1], p[2])
                                 : p \in { <<sect, combined_1to2>>,
                                           <<sect, combined_2to1>>,
                                           <<combined_1to2, combined_2to1>> } })
                           : sect \in {Strip(sorted_sect)},
                             combined_1to2 \in {Strip(sorted_sect \o <<" ">> \o sorted_1to2)},
                             combined_2to1 \in {Strip(sorted_sect \o <<" ">> \o sorted_2to1)} })
                     : sorted_sect \in {join(sortedSet(tokens1 \cap tokens2))},
                       sorted_1to2 \in {join(sortedSet(tokens1 \ tokens2))},
                       sorted_2to1 \in {join(sortedSet(tokens2 \ tokens1))} })
               : tokens1 \in { {t1[i] : i \in 1..Len(t1)} : t1 \in {split(s1)} },
                 tokens2 \in { {t2[i] : i \in 1..Len(t2)} : t2 \in {split(s2)} } })

\* fuzz.WRatio with full_process=False (extractOne has processed both strings).
\* The scales .95, .90, .60 are applied in thousandths.
WRatio(p1, p2) ==
    IF Len(p1) = 0 \/ Len(p2) = 0 THEN 0
    ELSE The({ IF ~(2 * longest < 3 * shortest)                  \* not len_ratio < 1.5
               THEN The({ intr(Max({1000 * ratio(p1, p2),
                                    partial_scale * partial_ratio(p1, p2),
                                    (950 * partial_scale * token_sort(p1, p2, TRUE)) \div 1000,
                                    (950 * partial_scale * token_set(p1, p2, TRUE)) \div 1000}),
                               1000)
                          : partial_scale \in {IF longest > 8 * shortest THEN 600 ELSE 900} })
               ELSE intr(Max({1000 * ratio(p1, p2),
                              950 * token_sort(p1, p2, FALSE),
                              950 * token_set(p1, p2, FALSE)}), 1000)
               : longest \in {Max({Len(p1), Len(p2)})},
                 shortest \in {Min({Len(p1), Len(p2)})} })

\* extractOne keeping the last of equal scores, as a loop that replaces the best
\* on ">=" would
extractOne_LastBest(query, choices) ==
    IF Len(choices) = 0 THEN None
    ELSE The({ The({ <<choices[Max({p[1] : p \in {q \in scored : q[2] = top}})], top>>
                     : top \in {Max({p[2] : p \in scored})} })
               : scored \in { {<<i, WRatio(processed_query, full_process(choices[i]))>> :
                                  i \in 1..Len(choices)}
                              : processed_query \in {full_process(full_process(query))} } })

\* process.extractOne(query, choices): None for no choices; otherwise Python's
\* max over (choice, score) by score, which keeps the first of equal scores
extractOne(query, choices) ==
    IF Len(choices) = 0 THEN None
    ELSE The({ The({ <<choices[Min({p[1] : p \in {q \in scored : q[2] = top}})], top>>
                     : top \in {Max({p[2] : p \in scored})} })
               : scored \in { {<<i, WRatio(processed_query, full_process(choices[i]))>> :
                                  i \in 1..Len(choices)}
                              : processed_query \in {full_process(full_process(query))} } })

-----------------------------------------------------------------------------
(* The catalog: pd.read_csv gives NaN for an empty cell, so a Path is a      *)
(* non-empty text or NaN; Display_Name is Name, filled from English_name,    *)
(* and stays NaN where both are empty.                                       *)

NamePool == {NaN, <<"M">>, <<"M", "L">>}
PathPool == {NaN, <<"R">>}
Rows == [Display_Name : NamePool, Path : PathPool]

RECURSIVE SeqsOfLen(_, _)
SeqsOfLen(S, n) ==
    IF n = 0 THEN {<<>>}
    ELSE {Append(q, x) : q \in SeqsOfLen(S, n - 1), x \in S}
Catalogs == UNION {SeqsOfLen(Rows, k) : k \in 0..MaxCat}

\* == on a pandas column: NaN equals nothing, itself included
Eq(a, b) == a # NaN /\ b # NaN /\ a = b

\* the positions of the rows df[df["Display_Name"] == name]
RowsNamed(d, name) == {i \in 1..Len(d) : Eq(d[i].Display_Name, name)}

\* df["Display_Name"].tolist()
DisplayNames(d) == [i \in 1..Len(d) |-> d[i].Display_Name]

\* Series.dropna()
dropna(names) == SelectSeq(names, LAMBDA x : x # NaN)

THRESHOLD == 60

\* a function's outcome: the value returned, or the exception raised
Ret(v) == [exc |-> "none", val |-> v]
Raise(e) == [exc |-> e, val |-> None]

\* find_best_match(query): unpacking extractOne's None raises TypeError
find_best_match(d, query) ==
    The({ IF Len(names) = 0 THEN Raise("TypeError")
          ELSE The({ Ret(<<r[1], r[2]>>)     \* score or 0: a score of 0 stays 0
                     : r \in {extractOne(query, names)} })
          : names \in {dropna(DisplayNames(d))} })

\* get_path taking the last matching row, row.iloc[-1]
get_path_LastRow(d, name) ==
    LET row == RowsNamed(d, name)
    IN  IF row = {} THEN <<>> ELSE d[Max(row)].Path

\* get_path(name)
get_path(d, name) ==
    LET row == RowsNamed(d, name)
    IN  IF row = {} THEN <<>> ELSE d[Min(row)].Path

\* lookup_route(restaurant_name): exact, then fuzzy over every Display_Name
lookup_route(d, name) ==
    The({ IF hit # {} THEN Ret(d[Min(hit)].Path)
          ELSE IF Len(names) = 0 THEN Raise("TypeError")
          ELSE The({ IF r[2] >= THRESHOLD
                     THEN IF RowsNamed(d, r[1]) = {}
                          THEN Raise("IndexError")            \* .iloc[0] of no rows
                          ELSE Ret(d[Min(RowsNamed(d, r[1]))].Path)
                     ELSE Ret(<<>>)
                     : r \in {extractOne(name, names)} })
          : hit \in {RowsNamed(d, name)}, names \in {DisplayNames(d)} })

\* "not path": only the empty string is falsy; NaN is a non-zero float
Falsy(v) == v = <<>>

\* "{v}" in an f-string
Format(v) == IF v = NaN THEN <<"n", "a", "n">> ELSE v

\* The fixed wording of each message is one opaque token.
READY == <<"<Siraj is ready, say Siraj>">>
PROMPT == <<"<go ahead, what is your question>">>
SORRY == <<"<sorry, I did not recognise the restaurant name>">>
NO_ROUTE == <<"<unfortunately no directions are available>">>
RouteMsg(name, p) == <<"<the nearest route to restaurant>">> \o Format(name) \o <<"<is:>">> \o Format(p)
NotFoundMsg(name) == <<"<sorry, I find no directions for restaurant>">> \o Format(name)

\* azure_speak(text): nothing is spoken for an empty text
azure_speak(spoken, msg) == IF msg = <<>> THEN spoken ELSE Append(spoken, msg)

WAKE_WORD == <<"S", "R", "A", "J">>

\* w in t
Contains(t, w) == \E i \in 0..(Len(t) - Len(w)) : Slice(t, i, i + Len(w)) = w

\* the wake test passing for any recognised speech, "if text:"
HeardWake_AnySpeech(t) == Len(t) > 0

\* "WAKE_WORD in text"
HeardWake(t) == Contains(t, WAKE_WORD)

\* the threshold test with another number, "score < 50"
BelowThreshold_50(s) == s < 50

\* "score < 60"
BelowThreshold(s) == s < THRESHOLD

-----------------------------------------------------------------------------
(* Inputs *)

\* what azure_transcribe may return for the wake recording ("" when recognition fails)
WakeTexts == {<<>>, WAKE_WORD, <<"S", "R", "A">>, <<"S", "R", "A", " ", "J">>,
              <<"M", " ">> \o WAKE_WORD \o <<" ", "M">>}

QChars == {"L", "M", " "}
Questions == Texts(QChars, MaxQ)

\* the two utterances the documentation gives: the restaurant's name alone, and
\* "take me to" before it
AL_DIWAN == <<"M", "T", "E", "M", " ", "A", "L", "D", "V", "W", "A", "N">>
TAKE_ME_TO_AL_DIWAN == <<"K", "Z", "N", "V", " ", "I", "L", "Y", " ">> \o AL_DIWAN

ExtractChars == {"I", "L", "Y", "_", "M", " ", "x"}
Utterances == Texts(ExtractChars, MaxUtt) \cup {AL_DIWAN, TAKE_ME_TO_AL_DIWAN}

\* arguments the language model may pass to get_route, and those of direct calls
Arguments == Questions \cup {<<"n", "a", "n">>}

-----------------------------------------------------------------------------
(* The assistant: main() of src/siraj_pipeline.py.  Locals that are dead at the  *)
(* top of the loop (each is assigned before it is read again) are forgotten      *)
(* there; said and lookups record the iteration's effects.                       *)

InitCommon ==
    /\ df \in Catalogs
    /\ text = Unset /\ question = Unset /\ dest_raw = Unset
    /\ best = Unset /\ score = NoScore /\ path = Unset
    /\ lookups = 0 /\ restaurant = Unset /\ out = Unset /\ exc = "none"

Init ==
    /\ InitCommon
    /\ prog \in {"assistant", "pipeline"}
    /\ pc = IF prog = "assistant" THEN "AWAITING_WAKE" ELSE "start"
    /\ said = IF prog = "assistant" THEN <<READY>> ELSE <<>>

\* lines 108-113: record, transcribe, test for the wake word, prompt
ListenWake ==
    /\ prog = "assistant" /\ pc = "AWAITING_WAKE"
    /\ \E t \in WakeTexts :
          /\ text' = t
          /\ IF HeardWake(t)
             THEN pc' = "AWAITING_QUERY" /\ said' = azure_speak(<<>>, PROMPT)
             ELSE pc' = "AWAITING_WAKE" /\ said' = <<>>
    /\ question' = Unset /\ dest_raw' = Unset /\ best' = Unset
    /\ score' = NoScore /\ path' = Unset /\ lookups' = 0
    /\ UNCHANGED <<df, prog, restaurant, out, exc>>

\* lines 116-118: record and transcribe the question
ListenQuery ==
    /\ prog = "assistant" /\ pc = "AWAITING_QUERY"
    /\ question' \in Questions
    /\ pc' = "EXTRACTING"
    /\ UNCHANGED <<df, prog, text, dest_raw, best, score, path, said, lookups,
                   restaurant, out, exc>>

\* line 121
Extract ==
    /\ prog = "assistant" /\ pc = "EXTRACTING"
    /\ dest_raw' = extract_destination(question)
    /\ pc' = "RESOLVING"
    /\ UNCHANGED <<df, prog, text, question, best, score, path, said, lookups,
                   restaurant, out, exc>>

\* lines 122-126: find_best_match and the threshold test; an exception leaves
\* main(), which catches KeyboardInterrupt only
Resolve ==
    /\ prog = "assistant" /\ pc = "RESOLVING"
    /\ \E r \in {find_best_match(df, dest_raw)} :
           IF r.exc # "none"
           THEN /\ exc' = r.exc /\ pc' = "CRASHED"
                /\ UNCHANGED <<best, score>>
           ELSE /\ best' = r.val[1] /\ score' = r.val[2]
                /\ pc' = IF BelowThreshold(r.val[2]) THEN "RESPONDING" ELSE "LOOKING_UP"
                /\ exc' = exc
    /\ UNCHANGED <<df, prog, text, question, dest_raw, path, said, lookups,
                   restaurant, out>>

\* line 129 with a get_path that drops the row it returns from the catalog
Lookup_ConsumesRow ==
    /\ prog = "assistant" /\ pc = "LOOKING_UP"
    /\ path' = get_path(df, best)
    /\ df' = IF RowsNamed(df, best) = {} THEN df
             ELSE SubSeq(df, 1, Min(RowsNamed(df, best)) - 1)
                  \o SubSeq(df, Min(RowsNamed(df, best)) + 1, Len(df))
    /\ lookups' = lookups + 1
    /\ pc' = "RESPONDING"
    /\ UNCHANGED <<prog, text, question, dest_raw, best, score, said,
                   restaurant, out, exc>>

\* line 129
Lookup ==
    /\ prog = "assistant" /\ pc = "LOOKING_UP"
    /\ path' = get_path(df, best)
    /\ lookups' = lookups + 1
    /\ pc' = "RESPONDING"
    /\ UNCHANGED <<df, prog, text, question, dest_raw, best, score, said,
                   restaurant, out, exc>>

\* what main() speaks at the end of the iteration: lines 125, 131, 133
Reply ==
    IF BelowThreshold(score) THEN SORRY
    ELSE IF Falsy(path) THEN NO_ROUTE
    ELSE RouteMsg(best, path)

Respond ==
    /\ prog = "assistant" /\ pc = "RESPONDING"
    /\ said' = azure_speak(said, Reply)
    /\ pc' = "AWAITING_WAKE"
    /\ UNCHANGED <<df, prog, text, question, dest_raw, best, score, path, lookups,
                   restaurant, out, exc>>

-----------------------------------------------------------------------------
(* The flow: get_route_handler of src/siraj_super_version.py, called once by *)
(* the "start" node, which then moves to "end".                              *)

get_route_handler(d, name) ==
    The({ IF p.exc # "none" THEN p
          ELSE IF Falsy(p.val) THEN Ret(NotFoundMsg(name))
          ELSE Ret(RouteMsg(name, p.val))
          : p \in {lookup_route(d, name)} })

GetRoute ==
    /\ prog = "pipeline" /\ pc = "start"
    /\ \E name \in Arguments :
          /\ restaurant' = name
          /\ \E r \in {get_route_handler(df, name)} :
                 /\ out' = r.val
                 /\ exc' = r.exc
                 /\ pc' = IF r.exc = "none" THEN "end" ELSE "CRASHED"
    /\ UNCHANGED <<df, prog, text, question, dest_raw, best, score, path, said, lookups>>

Next == ListenWake \/ ListenQuery \/ Extract \/ Resolve \/ Lookup \/ Respond \/ GetRoute

Spec == Init /\ [][Next]_vars

-----------------------------------------------------------------------------
(* extract_destination called on its own, on each utterance of the bound *)

InitExtract ==
    /\ df = <<>>
    /\ text = Unset /\ question \in Utterances /\ dest_raw = Unset
    /\ best = Unset /\ score = NoScore /\ path = Unset
    /\ lookups = 0 /\ restaurant = Unset /\ out = Unset /\ exc = "none"
    /\ prog = "extract" /\ pc = "ready" /\ said = <<>>

CallExtract ==
    /\ prog = "extract" /\ pc = "ready"
    /\ dest_raw' = extract_destination(question)
    /\ pc' = "returned"
    /\ UNCHANGED <<df, prog, text, question, best, score, path, said, lookups,
                   restaurant, out, exc>>

NextExtract == CallExtract

SpecExtract == InitExtract /\ [][NextExtract]_vars

-----------------------------------------------------------------------------
(* find_best_match, get_path and lookup_route called on their own *)

InitCore ==
    /\ InitCommon
    /\ prog = "call" /\ pc = "ready" /\ said = <<>>

CallFindBestMatch ==
    /\ prog = "call" /\ pc = "ready"
    /\ \E q \in Arguments :
          /\ restaurant' = q
          /\ \E r \in {find_best_match(df, q)} :
                 /\ exc' = r.exc
                 /\ best' = IF r.exc = "none" THEN r.val[1] ELSE best
                 /\ score' = IF r.exc = "none" THEN r.val[2] ELSE score
    /\ pc' = "find_best_match"
    /\ UNCHANGED <<df, prog, text, question, dest_raw, path, said, lookups, out>>

CallGetPath ==
    /\ prog = "call" /\ pc = "ready"
    /\ \E n \in Arguments \cup {NaN} :
          /\ restaurant' = n
          /\ out' = get_path(df, n)
    /\ pc' = "get_path"
    /\ UNCHANGED <<df, prog, text, question, dest_raw, best, score, path, said, lookups, exc>>

CallLookupRoute ==
    /\ prog = "call" /\ pc = "ready"
    /\ \E n \in Arguments :
          /\ restaurant' = n
          /\ \E r \in {lookup_route(df, n)} :
                 out' = r.val /\ exc' = r.exc
    /\ pc' = "lookup_route"
    /\ UNCHANGED <<df, prog, text, question, dest_raw, best, score, path, said, lookups>>

NextCore == CallFindBestMatch \/ CallGetPath \/ CallLookupRoute

SpecCore == InitCore /\ [][NextCore]_vars

-----------------------------------------------------------------------------
(* Properties of extract_destination, under SpecExtract *)

\* no marker occurs anywhere in u
NoMarkerIn(u) == \A m \in 1..Len(Markers) : ~Contains(u, Markers[m])

\* C4: for every utterance in which no marker is found, extract returns the
\* utterance trimmed and otherwise unchanged; in particular the restaurant's name
\* alone, "MTEM ALDVWAN", comes back whole.
C4_NoMarkerReturnsWholeUtterance ==
    pc = "returned" =>
        /\ NoMarkerIn(question) => dest_raw = Strip(question)
        /\ question = AL_DIWAN => dest_raw = AL_DIWAN

\* after optional whitespace from 0-based position p, u goes on with a script character
ScriptFollows(u, p) ==
    \E q \in p..(Len(u) - 1) :
        IsArabic(u[q + 1]) /\ \A r \in p..(q - 1) : IsSpace(u[r + 1])

\* at position p, u goes on with a script character or a whitespace character
ClassFollows(u, p) == p < Len(u) /\ (IsArabic(u[p + 1]) \/ IsSpace(u[p + 1]))

\* the run of script and whitespace characters of u from position p, trimmed
TrimmedRunFrom(u, p) ==
    LET stop == {q \in p..Len(u) : q = Len(u) \/ ~(IsArabic(u[q + 1]) \/ IsSpace(u[q + 1]))}
    IN  Strip(Slice(u, p, Min(stop)))

\* the marker occurrences of u, <<i, m>> for Markers[m] at position i, that a
\* script character follows (script = TRUE) or that a script or whitespace
\* character follows (script = FALSE)
Occurrences(u, script) ==
    {o \in (0..(Len(u) - 1)) \X (1..Len(Markers)) :
        /\ Slice(u, o[1], o[1] + Len(Markers[o[2]])) = Markers[o[2]]
        /\ IF script THEN ScriptFollows(u, o[1] + Len(Markers[o[2]]))
                     ELSE ClassFollows(u, o[1] + Len(Markers[o[2]]))}

\* the first of these occurrences; of two at one position, the longer marker
FirstOccurrence(occ) ==
    CHOOSE o \in occ : \A n \in occ :
        o[1] < n[1] \/ (o[1] = n[1] /\ Len(Markers[o[2]]) >= Len(Markers[n[2]]))

\* what follows the first occurrence
AfterFirst(u, occ) ==
    TrimmedRunFrom(u, FirstOccurrence(occ)[1] + Len(Markers[FirstOccurrence(occ)[2]]))

\* C5 as stated: for every utterance that contains a marker followed by a run of
\* script characters, extract returns the trimmed run of script characters and
\* whitespace that follows the first such marker.
C5_RunAfterFirstMarkerBeforeScript ==
    (pc = "returned" /\ Occurrences(question, TRUE) # {}) =>
        dest_raw = AfterFirst(question, Occurrences(question, TRUE))

\* C5, amended: for every utterance that contains a marker followed by at least
\* one script or whitespace character, extract returns the trimmed run of script
\* characters and whitespace that follows the first such marker (the longer
\* marker where two start at one position); "take me to al-Diwan" gives the
\* restaurant's name.
C5_RunAfterFirstMarker ==
    /\ (pc = "returned" /\ Occurrences(question, FALSE) # {}) =>
            dest_raw = AfterFirst(question, Occurrences(question, FALSE))
    /\ (pc = "returned" /\ question = TAKE_ME_TO_AL_DIWAN) => dest_raw = AL_DIWAN

\* C5's case: the documented utterance has been extracted
C5_Witness ==
    pc = "returned" /\ question = TAKE_ME_TO_AL_DIWAN /\ dest_raw = AL_DIWAN

-----------------------------------------------------------------------------
(* Properties of find_best_match, get_path and lookup_route, under SpecCore *)

\* the names find_best_match matches against
Names == SelectSeq(DisplayNames(df), LAMBDA x : x # NaN)

\* the similarity of a query and a display name, as extractOne scores it
Similarity(q, name) == WRatio(full_process(full_process(q)), full_process(name))

\* C3: when the catalog has no display names to match against, resolve returns
\* an absent match and score 0 and never raises.
C3_EmptyCatalogGivesAbsentMatch ==
    (prog = "call" /\ pc = "find_best_match" /\ Names = <<>>) =>
        exc = "none" /\ best = None /\ score = 0

\* the route of the first row whose Display_Name equals name, "" when there is none
FirstExactRoute(name) ==
    IF \E i \in 1..Len(df) : name # NaN /\ df[i].Display_Name = name
    THEN df[Min({i \in 1..Len(df) : df[i].Display_Name = name})].Path
    ELSE <<>>

C7_ResolveReturnsFirstBest ==
    (prog = "call" /\ pc = "find_best_match" /\ Names # <<>>) =>
        /\ exc = "none"
        /\ \E i \in 1..Len(Names) :
              /\ best = Names[i]
              /\ score = Similarity(restaurant, Names[i])
              /\ \A j \in 1..Len(Names) : Similarity(restaurant, Names[j]) <= score
              /\ \A j \in 1..(i - 1) : Similarity(restaurant, Names[j]) < score
        /\ score \in 0..100

\* C7's case: two entries of different names are equally similar to the query,
\* and the earlier one has been returned
C7_Witness ==
    /\ prog = "call" /\ pc = "find_best_match" /\ exc = "none" /\ Len(Names) = 2
    /\ Names[1] # Names[2] /\ best = Names[1]
    /\ Similarity(restaurant, Names[2]) = score

-----------------------------------------------------------------------------
(* Properties of main() and of get_route_handler, under Spec *)

IsRouteMsg(m) == Len(m) >= 1 /\ m[1] = "<the nearest route to restaurant>"
IsApology(m) ==
    \/ m \in {SORRY, NO_ROUTE}
    \/ Len(m) >= 1 /\ m[1] = "<sorry, I find no directions for restaurant>"

\* main() has answered the question of this iteration and is back at the top
Answered == prog = "assistant" /\ pc = "AWAITING_WAKE" /\ question # Unset

\* C1: in the cycle of main(), for every query and every catalog, a step that
\* fails (empty extraction, empty resolver result, score below the threshold,
\* empty route) leads to a spoken apology instead of a route, after which the
\* loop awaits the wake word again; no failing step ends the loop or leaves it
\* without a spoken response.
C1_FailingStepApologises ==
    prog = "assistant" =>
        /\ pc # "CRASHED"
        /\ (/\ Answered
            /\ \/ dest_raw = <<>>
               \/ score < 60
               \/ path \in {NaN, <<>>}) =>
               Len(said) = 2 /\ IsApology(said[2])

\* C2: for every query whose resolver score is below the threshold 60 the
\* response is the not-understood apology and get_path is not called for it; a
\* route is spoken or returned only for a match that scores at least 60 (or, in
\* lookup_route, for a name that an entry bears exactly).
C2_ThresholdGuardsRoute ==
    /\ (prog = "assistant" /\ score # NoScore /\ score < 60) =>
            /\ lookups = 0 /\ path = Unset
            /\ pc \in {"RESPONDING", "AWAITING_WAKE"}
            /\ pc = "AWAITING_WAKE" => said = <<PROMPT, SORRY>>
    /\ (prog = "assistant" /\ (lookups > 0 \/ \E i \in 1..Len(said) : IsRouteMsg(said[i]))) =>
            /\ score >= 60
            /\ \E j \in 1..Len(df) :
                  /\ df[j].Display_Name = best
                  /\ Similarity(dest_raw, best) = score
    /\ (prog = "pipeline" /\ pc = "end" /\ IsRouteMsg(out)) =>
            \E j \in 1..Len(df) :
                \/ df[j].Display_Name = restaurant
                \/ Similarity(restaurant, df[j].Display_Name) >= 60

\* C2's case: a query scored below 60, above 0, and was answered with the apology
C2_Witness ==
    /\ Answered /\ score > 0 /\ score < 60
    /\ said = <<PROMPT, SORRY>> /\ lookups = 0

\* C8: every response that carries a route contains the display_name of the
\* catalog entry whose route is given and that entry's route text (as the
\* message formats it); every other response is an apology.
C8_RouteResponseNamesItsEntry ==
    /\ (prog = "assistant" /\ Answered) =>
            \/ IsApology(said[Len(said)])
            \/ \E j \in 1..Len(df) :
                  said[Len(said)] = RouteMsg(df[j].Display_Name, df[j].Path)
    /\ (prog = "pipeline" /\ pc = "end") =>
            \/ IsApology(out)
            \/ \E j \in 1..Len(df) :
                  /\ Contains(out, Format(df[j].Display_Name))
                  /\ Contains(out, Format(df[j].Path))

\* C9: after the catalog is built, no operation changes it: every step of
\* main() and of the handler leaves the catalog as it was.
C9_CatalogNeverChanges == [][df' = df]_vars

\* C9's case: a whole cycle of main() has run, get_path included, over a
\* catalog of two entries
C9_Witness == Answered /\ lookups = 1 /\ Len(df) = 2

\* C10: main() records, extracts, resolves and answers a query only in an
\* iteration whose wake transcript contains the wake word; an iteration whose
\* transcript lacks it speaks nothing and extracts, resolves and looks up
\* nothing; a detected wake word enables one query at most.
C10_WakeWordGatesQuery ==
    prog = "assistant" =>
        /\ pc \in {"AWAITING_QUERY", "EXTRACTING", "RESOLVING", "LOOKING_UP", "RESPONDING"}
              => Contains(text, WAKE_WORD)
        /\ (question # Unset \/ dest_raw # Unset \/ best # Unset \/ lookups > 0)
              => Contains(text, WAKE_WORD)
        /\ (text # Unset /\ ~Contains(text, WAKE_WORD)) =>
              pc = "AWAITING_WAKE" /\ said = <<>>
        /\ Len(said) <= 2 /\ lookups <= 1
        /\ (Len(said) = 2 => pc = "AWAITING_WAKE")

\* C10's case: a transcript that comes close to the wake word has been heard
\* and nothing was said or done
C10_Witness ==
    /\ prog = "assistant" /\ pc = "AWAITING_WAKE"
    /\ text = <<"S", "R", "A", " ", "J">> /\ said = <<>> /\ question = Unset

====
